---- MODULE Spec2Model ----
(***************************************************************************)
(* ha-stats.py: poll the HAProxy statistics page (CSV), and push thirteen  *)
(* selected fields of every row to statsd as gauges, one UDP datagram per  *)
(* field.                                                                  *)
(*                                                                         *)
(* Text is a sequence of atoms.  The atoms "#", " ", "," and "\n" are the  *)
(* characters the code treats specially; every other atom is a non-empty   *)
(* run of ordinary characters (a word) that contains none of these.  The   *)
(* csv module's quoting is outside the alphabet: no atom is a quote.       *)
(*                                                                         *)
(* A Python value is a record tagged with its type, so that a str, None,   *)
(* the int 0 and a list are distinct values.                               *)
(***************************************************************************)
EXTENDS Integers, Sequences, FiniteSets, TLC

VARIABLES
    pc,          \* where the process is: "fetch", "push", "rows", "send", "sleep", "exit", "crashed"
    test,        \* args.test
    namespace,   \* the resolved statsd namespace
    served,      \* what the stats source serialised for this cycle: [marker, header, lines]
    status,      \* i.status_code of this cycle's response (0: none yet)
    content,     \* i.content
    reader,      \* the csv.DictReader returned by get_ha_stats
    rows,        \* the rows the reader has yielded in this cycle, in order
    name,        \* push_to_statsd's name for the current row
    idx,         \* position of the inner loop in the field list
    stat_count,  \* push_to_statsd's stat_count
    reported,    \* the count of the last "Reported %s stats" line (PyNone: none printed)
    wire,        \* the payloads handed to udp.sendto in this cycle, in order
    lost,        \* how many of them the network dropped
    err          \* the exception that ended the process ("" while none)

vars == <<pc, test, namespace, served, status, content, reader, rows, name, idx,
          stat_count, reported, wire, lost, err>>

----------------------------------------------------------------------------
(* Bounds of the model.                                                    *)

MaxMarker == 2   \* characters of '#' and ' ' in front of the header line
MaxLines  == 2   \* data lines of a response
MaxWidth  == 3   \* cells of a data line, in the parsing specification
MaxLost   == 1   \* datagrams the network drops in one cycle

----------------------------------------------------------------------------
(* Python values.                                                          *)

PyStr(s)  == [type |-> "str", v |-> s]
PyNone    == [type |-> "NoneType"]
PyInt(n)  == [type |-> "int", v |-> n]
PyList(l) == [type |-> "list", v |-> l]

\* Truth value of a Python object, as `or` tests it.
Truthy(x) ==
    CASE x.type = "NoneType" -> FALSE
      [] x.type = "str"      -> x.v # <<>>
      [] x.type = "int"      -> x.v # 0
      [] x.type = "list"     -> x.v # <<>>

\* a or b
PyOr(a, b) == IF Truthy(a) THEN a ELSE b

\* Decimal digits of a natural number, as text.
RECURSIVE Digits(_)
Digits(n) ==
    LET d == <<"0", "1", "2", "3", "4", "5", "6", "7", "8", "9">>[(n % 10) + 1]
    IN  IF n < 10 THEN <<d>> ELSE Digits(n \div 10) \o <<d>>

\* '%s' % x: a str is itself, an int its digits, None the word None.
Format(x) ==
    CASE x.type = "str"      -> x.v
      [] x.type = "int"      -> Digits(x.v)
      [] x.type = "NoneType" -> <<"None">>

\* dict.get(key): the value, or None when the key is absent.
DictGet(d, key) == IF key \in DOMAIN d THEN d[key] ELSE PyNone

----------------------------------------------------------------------------
(* Text operations of get_ha_stats.                                        *)

\* str.lstrip(chars): drop every leading atom that is one of chars.
RECURSIVE lstrip(_, _)
lstrip(s, chars) ==
    IF s # <<>> /\ Head(s) \in chars THEN lstrip(Tail(s), chars) ELSE s

\* Position of the first atom a in s, 0 when there is none.
RECURSIVE Find(_, _, _)
Find(s, a, i) ==
    IF i > Len(s) THEN 0 ELSE IF s[i] = a THEN i ELSE Find(s, a, i + 1)

\* str.splitlines(): the lines without their terminators; a final terminator
\* opens no further line.
RECURSIVE splitlines(_)
splitlines(s) ==
    IF s = <<>> THEN <<>>
    ELSE LET i == Find(s, "\n", 1)
         IN  IF i = 0 THEN <<s>>
             ELSE <<SubSeq(s, 1, i - 1)>> \o splitlines(SubSeq(s, i + 1, Len(s)))

\* The fields of a non-empty line, split at each comma.
RECURSIVE SplitComma(_)
SplitComma(s) ==
    LET i == Find(s, ",", 1)
    IN  IF i = 0 THEN <<s>>
        ELSE <<SubSeq(s, 1, i - 1)>> \o SplitComma(SubSeq(s, i + 1, Len(s)))

\* csv.reader on one line: an empty line is the empty row.
CsvRow(line) == IF line = <<>> THEN <<>> ELSE SplitComma(line)

----------------------------------------------------------------------------
(* csv.DictReader, as get_ha_stats builds it and push_to_statsd iterates   *)
(* it: lazy, one line per call of next().                                  *)

\* csv.DictReader(f): nothing is read yet.
\* line_num counts the lines read; the code only tests it against 0.
DictReader(f) == [lines |-> f, fieldnames |-> PyNone, line_num |-> 0]

\* The fieldnames property: the first call reads the first line as the header.
ReadFieldnames(r) ==
    IF r.fieldnames = PyNone /\ r.lines # <<>>
    THEN [lines      |-> Tail(r.lines),
          fieldnames |-> PyList(CsvRow(Head(r.lines))),
          line_num   |-> r.line_num + 1]
    ELSE r

\* A reader that returns blank rows like any other, as the plain csv.reader does.
SkipBlankKeepAll(lines) == lines

\* The lines left once the rows that parse to [] are passed over.
RECURSIVE SkipBlank(_)
SkipBlank(lines) ==
    IF lines # <<>> /\ CsvRow(Head(lines)) = <<>> THEN SkipBlank(Tail(lines)) ELSE lines

\* The reader as next() finds it after its first two statements.
AtNextRow(r) ==
    LET r1 == IF r.line_num = 0 THEN ReadFieldnames(r) ELSE r
    IN  [r1 EXCEPT !.lines = SkipBlank(r1.lines)]

\* next() raises StopIteration.
Exhausted(r) == AtNextRow(r).lines = <<>>

Min(a, b) == IF a <= b THEN a ELSE b

\* A reader that neither fills the missing columns nor keeps the surplus ones.
MakeRowNoFill(fn, row) ==
    LET lf == Len(fn)
        lr == Len(row)
        n  == Min(lf, lr)
        last(k) == CHOOSE i \in 1..n : fn[i] = k /\ \A j \in (i + 1)..n : fn[j] # k
    IN  [key \in {PyStr(fn[i]) : i \in 1..n} |-> PyStr(row[last(key.v)])]

\* dict(zip(fieldnames, row)), then the rest key or the rest values.
MakeRow(fn, row) ==
    LET lf == Len(fn)
        lr == Len(row)
        n  == Min(lf, lr)
        last(k) == CHOOSE i \in 1..n : fn[i] = k /\ \A j \in (i + 1)..n : fn[j] # k
        d  == [key \in {PyStr(fn[i]) : i \in 1..n} |-> PyStr(row[last(key.v)])]
    IN  IF lf < lr
        THEN (PyNone :> PyList([i \in 1..(lr - lf) |-> PyStr(row[lf + i])])) @@ d
        ELSE IF lf > lr
        THEN [key \in {PyStr(fn[i]) : i \in (lr + 1)..lf} |-> PyNone] @@ d
        ELSE d

\* The dict next() returns, and the reader it leaves behind.
NextDict(r) ==
    LET r2 == AtNextRow(r)
    IN  MakeRow(r2.fieldnames.v, CsvRow(Head(r2.lines)))

AfterNext(r) ==
    LET r2 == AtNextRow(r)
    IN  [r2 EXCEPT !.lines = Tail(r2.lines),
                   !.line_num = r.line_num + (Len(r.lines) - Len(r2.lines)) + 1]

----------------------------------------------------------------------------
(* What the stats source serves.  A response is written from a marker (the *)
(* characters in front of the header line), the header's column names and  *)
(* the cells of each data line; each line ends with a newline.  A line of  *)
(* no cells is a blank line.                                               *)

\* ','.join(cells)
RECURSIVE JoinWith(_, _)
JoinWith(sep, cells) ==
    IF cells = <<>> THEN <<>>
    ELSE IF Len(cells) = 1 THEN cells[1]
    ELSE cells[1] \o <<sep>> \o JoinWith(sep, Tail(cells))

RECURSIVE RenderLines(_)
RenderLines(ls) ==
    IF ls = <<>> THEN <<>>
    ELSE JoinWith(",", Head(ls)) \o <<"\n">> \o RenderLines(Tail(ls))

Render(s) == s.marker \o RenderLines(<<s.header>> \o s.lines)

\* The cell values a data line is written from, by line and column.  The
\* first cell of a line is never empty, so a line of one cell is not blank.
Vals == <<"web", "FRONTEND", "", "12", "4096", "7x", "0", "db">>

CellAt(j, c) ==
    LET w == Vals[(((c - 1) + 3 * (j - 1)) % Len(Vals)) + 1]
    IN  IF w = "" THEN <<>> ELSE <<w>>

LineOf(j, width) == [c \in 1..width |-> CellAt(j, c)]

\* Every sequence of n data lines, line j having one of the widths in W.
RECURSIVE LinesOf(_, _)
LinesOf(n, W) ==
    IF n = 0 THEN {<<>>}
    ELSE {Append(ls, LineOf(n, w)) : ls \in LinesOf(n - 1, W), w \in W}

\* The responses with one of the markers, one of the headers h and at most
\* MaxLines data lines of the widths widths[h].
Bodies(markers, headers, widths) ==
    UNION {{[marker |-> m, header |-> h, lines |-> ls] :
                m \in markers,
                ls \in UNION {LinesOf(n, widths[h]) : n \in 0..MaxLines}} :
           h \in headers}

\* Every run of at most n characters '#' and ' '.
Markers(n) == UNION {[1..k -> {"#", " "}] : k \in 0..n}

\* The marker HAProxy writes.
HAProxyMarker == <<"#", " ">>

\* Headers and line widths of the polling specification: a header with two
\* selected fields around one that is not selected, and a header without
\* svname; blank, short, exact and long lines.
CycleHeaders ==
    {<<<<"pxname">>, <<"svname">>, <<"qcur">>, <<"slim">>, <<"bin">>>>,
     <<<<"pxname">>, <<"qcur">>>>}

CycleWidths == [h \in CycleHeaders |-> {0, 1, Len(h) - 1, Len(h), Len(h) + 1}]

CycleBodies == Bodies({HAProxyMarker}, CycleHeaders, CycleWidths)

\* Headers and line widths of the parsing specification: no column, one, two,
\* a repeated name, an empty name; every width up to MaxWidth.
FetchHeaders ==
    {<<>>,
     <<<<"pxname">>>>,
     <<<<"pxname">>, <<"svname">>>>,
     <<<<"svname">>, <<"pxname">>>>,
     <<<<"pxname">>, <<"pxname">>>>,
     <<<<"pxname">>, <<>>>>,
     <<<<"pxname">>, <<"svname">>, <<"pxname">>>>}

FetchWidths == [h \in FetchHeaders |-> 0..MaxWidth]

FetchBodies == Bodies(Markers(MaxMarker), FetchHeaders, FetchWidths)

----------------------------------------------------------------------------
(* get_ha_stats and push_to_statsd.                                         *)

\* The status codes the source answers with: success, a final 3xx, client
\* and server error.
Statuses == {200, 304, 404, 503}

\* A fetch without the status check.
NeverRaises(st) == FALSE

\* Response.raise_for_status() raises HTTPError for 4xx and 5xx only.
raise_for_status(st) == 400 <= st /\ st < 600

\* The field list of the commented "mostly used config".
MostlyUsedFields ==
    <<"qcur", "qmax", "rate", "rate_max", "scur", "smax", "hrsp_1xx", "hrsp_2xx",
      "hrsp_3xx", "hrsp_4xx", "hrsp_5xx", "qtime", "ctime", "rtime", "ttime",
      "bin", "bout", "dreq", "dresp", "ereq", "econ", "eresp">>

\* The field list in the order of the documentation.
DocumentedFields ==
    <<"qcur", "qmax", "rate", "rate_max", "scur", "smax", "hrsp_1xx", "hrsp_2xx",
      "hrsp_3xx", "hrsp_4xx", "hrsp_5xx", "bin", "bout">>

\* The list the inner loop of push_to_statsd runs over ("Default config").
SelectedFields ==
    <<"qcur", "qmax", "scur", "smax", "rate", "rate_max", "hrsp_1xx", "hrsp_2xx",
      "hrsp_3xx", "hrsp_4xx", "hrsp_5xx", "bin", "bout">>

\* The namespaces the configuration resolves to: the default of
\* push_to_statsd and the default of the configuration.
Namespaces == {<<"haproxy">>, <<"haproxy", ".", "stats">>}

\* The strip that removes one leading "# " and nothing else.
StripExactMarker(c) ==
    IF Len(c) >= 2 /\ SubSeq(c, 1, 2) = <<"#", " ">> THEN SubSeq(c, 3, Len(c)) ELSE c

\* data = i.content.lstrip('# ')
StripMarker(c) == lstrip(c, {"#", " "})

\* get_ha_stats' result for a response that raise_for_status lets through.
get_ha_stats(c) == DictReader(splitlines(StripMarker(c)))

\* row['pxname'] and row['svname'] raise KeyError when the key is absent, and
\* str.join raises TypeError when a value is None.
NameError(row) ==
    IF PyStr(<<"pxname">>) \notin DOMAIN row \/ PyStr(<<"svname">>) \notin DOMAIN row
    THEN "KeyError"
    ELSE IF row[PyStr(<<"pxname">>)].type # "str" \/ row[PyStr(<<"svname">>)].type # "str"
    THEN "TypeError"
    ELSE ""

\* name = '.'.join([namespace, row['pxname'], row['svname']])
RowName(ns, row) ==
    JoinWith(".", <<ns, row[PyStr(<<"pxname">>)].v, row[PyStr(<<"svname">>)].v>>)

\* value = row.get(data), without the default.
FieldValueNoDefault(row, data) == DictGet(row, PyStr(<<data>>))

\* value = row.get(data) or 0
FieldValue(row, data) == PyOr(DictGet(row, PyStr(<<data>>)), PyInt(0))

\* A payload that ends its line, as the statsd line protocol allows.
PayloadWithNewline(n, data, value) ==
    n \o <<".", data, ":">> \o Format(value) \o <<"|", "g", "\n">>

\* '%s.%s:%s|g' % (name, data, value)
Payload(n, data, value) == n \o <<".", data, ":">> \o Format(value) \o <<"|", "g">>

\* A main loop that catches the exception, reports it and sleeps.
RaiseCaught(e) == pc' = "sleep" /\ err' = e

\* An exception nothing catches ends the process: the try of the main loop
\* catches KeyboardInterrupt only.
Raise(e) == pc' = "crashed" /\ err' = e

\* What udp.sendto can do with a datagram: hand it to the network, which
\* delivers or drops it, or raise socket.error.
SendOutcomes == {"delivered", "lost", "raised"}

\* A send that gives up when a datagram does not arrive.
SendAbortsOnLoss(outcome) == outcome \in {"raised", "lost"}

\* Only an exception of sendto leaves the loop.
SendAborts(outcome) == outcome = "raised"

----------------------------------------------------------------------------
(* The process.                                                            *)

Init ==
    /\ pc = "fetch"
    /\ test \in BOOLEAN
    /\ namespace \in Namespaces
    /\ served = PyNone
    /\ status = 0
    /\ content = <<>>
    /\ reader = DictReader(<<>>)
    /\ rows = <<>>
    /\ name = <<>>
    /\ idx = 0
    /\ stat_count = 0
    /\ reported = PyNone
    /\ wire = <<>>
    /\ lost = 0
    /\ err = ""

\* get_stats = get_ha_stats(url, user, password), with a response out of bodies.
Fetch(bodies) ==
    /\ pc = "fetch"
    /\ rows' = <<>>
    /\ wire' = <<>>
    /\ lost' = 0
    /\ reported' = PyNone
    /\ \/ \* requests.get raises: no connection, no answer
          /\ Raise("ConnectionError")
          /\ served' = PyNone
          /\ status' = 0
          /\ UNCHANGED <<content, reader>>
       \/ \E st \in Statuses, s \in bodies :
             /\ served' = s
             /\ status' = st
             /\ content' = Render(s)
             /\ IF raise_for_status(st)
                THEN Raise("HTTPError") /\ UNCHANGED reader
                ELSE /\ reader' = get_ha_stats(Render(s))
                     /\ pc' = "push"
                     /\ UNCHANGED err
    /\ UNCHANGED <<test, namespace, name, idx, stat_count>>

\* The first statements of push_to_statsd: the socket and the counter.
PushBegin ==
    /\ pc = "push"
    /\ stat_count' = 0
    /\ pc' = "rows"
    /\ UNCHANGED <<test, namespace, served, status, content, reader, rows, name, idx,
                   reported, wire, lost, err>>

\* for row in rows: the reader yields a row, and name is computed from it.
NextRow ==
    /\ pc = "rows"
    /\ ~Exhausted(reader)
    /\ LET row == NextDict(reader)
       IN  /\ rows' = Append(rows, row)
           /\ reader' = AfterNext(reader)
           /\ IF NameError(row) # ""
              THEN Raise(NameError(row)) /\ UNCHANGED <<name, idx>>
              ELSE /\ name' = RowName(namespace, row)
                   /\ idx' = 1
                   /\ pc' = "send"
                   /\ UNCHANGED err
    /\ UNCHANGED <<test, namespace, served, status, content, stat_count, reported,
                   wire, lost>>

\* One pass of the inner loop: the value, the datagram, the count.
Send ==
    /\ pc = "send"
    /\ LET data    == SelectedFields[idx]
           value   == FieldValue(rows[Len(rows)], data)
           payload == Payload(name, data, value)
       IN  \E outcome \in SendOutcomes :
             /\ outcome = "lost" => lost < MaxLost
             /\ wire' = IF outcome = "raised" THEN wire ELSE Append(wire, payload)
             /\ lost' = IF outcome = "lost" THEN lost + 1 ELSE lost
             /\ IF SendAborts(outcome)
                THEN Raise("socket.error") /\ UNCHANGED <<idx, stat_count>>
                ELSE /\ stat_count' = stat_count + 1
                     /\ IF idx < Len(SelectedFields)
                        THEN idx' = idx + 1 /\ pc' = "send"
                        ELSE idx' = 0 /\ pc' = "rows"
                     /\ UNCHANGED err
    /\ UNCHANGED <<test, namespace, served, status, content, reader, rows, name, reported>>

\* The reader is exhausted: push_to_statsd returns stat_count, the main loop
\* prints it and exits (test) or sleeps.
Return ==
    /\ pc = "rows"
    /\ Exhausted(reader)
    /\ reported' = PyInt(stat_count)
    /\ pc' = IF test THEN "exit" ELSE "sleep"
    /\ UNCHANGED <<test, namespace, served, status, content, reader, rows, name, idx,
                   stat_count, wire, lost, err>>

\* time.sleep(sleep) returns: the next pass of while True.  Nothing of the
\* finished cycle is read again (the locals of the two functions are gone,
\* get_stats and push_statsd are assigned before they are read), so the pass
\* starts from the state the first one started from.
Wake ==
    /\ pc = "sleep"
    /\ pc' = "fetch"
    /\ served' = PyNone
    /\ status' = 0
    /\ content' = <<>>
    /\ reader' = DictReader(<<>>)
    /\ rows' = <<>>
    /\ name' = <<>>
    /\ idx' = 0
    /\ stat_count' = 0
    /\ reported' = PyNone
    /\ wire' = <<>>
    /\ lost' = 0
    /\ UNCHANGED <<test, namespace, err>>

\* KeyboardInterrupt anywhere in the try: exit(0).
Interrupt ==
    /\ pc \in {"fetch", "push", "rows", "send", "sleep"}
    /\ pc' = "exit"
    /\ UNCHANGED <<test, namespace, served, status, content, reader, rows, name, idx,
                   stat_count, reported, wire, lost, err>>

FetchCycle == Fetch(CycleBodies)

Next == FetchCycle \/ PushBegin \/ NextRow \/ Send \/ Return \/ Wake \/ Interrupt

Spec == Init /\ [][Next]_vars

----------------------------------------------------------------------------
(* The parsing specification: get_ha_stats on every response of            *)
(* FetchBodies, its reader then iterated to the end as the for statement   *)
(* of push_to_statsd iterates it.                                          *)

FetchAny == Fetch(FetchBodies)

\* The reader yields one more row.
ReadRow ==
    /\ pc = "push"
    /\ ~Exhausted(reader)
    /\ rows' = Append(rows, NextDict(reader))
    /\ reader' = AfterNext(reader)
    /\ UNCHANGED <<pc, test, namespace, served, status, content, name, idx, stat_count,
                   reported, wire, lost, err>>

\* The reader raises StopIteration.
ReadEnd ==
    /\ pc = "push"
    /\ Exhausted(reader)
    /\ pc' = "drained"
    /\ UNCHANGED <<test, namespace, served, status, content, reader, rows, name, idx,
                   stat_count, reported, wire, lost, err>>

NextFetch == FetchAny \/ ReadRow \/ ReadEnd

SpecFetch == Init /\ [][NextFetch]_vars

----------------------------------------------------------------------------
(* Vocabulary of the properties.                                           *)

\* Size of the field selection list.
SelectionSize == 13

\* The order in which the code sends the fields of one row.
FieldOrderInCode ==
    <<"qcur", "qmax", "scur", "smax", "rate", "rate_max", "hrsp_1xx", "hrsp_2xx",
      "hrsp_3xx", "hrsp_4xx", "hrsp_5xx", "bin", "bout">>

\* The order of the field list of the specification's external interface.
FieldOrderInSpec ==
    <<"qcur", "qmax", "rate", "rate_max", "scur", "smax", "hrsp_1xx", "hrsp_2xx",
      "hrsp_3xx", "hrsp_4xx", "hrsp_5xx", "bin", "bout">>

Px == PyStr(<<"pxname">>)
Sv == PyStr(<<"svname">>)

\* The row and the place in the field list that the k-th datagram of a cycle
\* belongs to, when datagrams go out in row order then field-list order.
RowAt(k)   == ((k - 1) \div SelectionSize) + 1
PlaceAt(k) == ((k - 1) % SelectionSize) + 1

\* "<namespace>.<pxname>.<svname>"
NameOf(row) == namespace \o <<".">> \o row[Px].v \o <<".">> \o row[Sv].v

\* "<namespace>.<pxname>.<svname>.<field>:<value>|g"
Datagram(row, field, value) == NameOf(row) \o <<".", field, ":">> \o value \o <<"|", "g">>

\* A row has its two name fields, as strings.
Named(row) ==
    /\ Px \in DOMAIN row /\ row[Px].type = "str"
    /\ Sv \in DOMAIN row /\ row[Sv].type = "str"

\* The call of push_to_statsd of this cycle has returned.
Returned == reported # PyNone

\* The data lines of the response that are not blank.
DataLines == SelectSeq(served.lines, LAMBDA l : l # <<>>)

\* Every datagram sent so far belongs to a row that was passed in and named.
WireWithinRows ==
    /\ Len(wire) <= SelectionSize * Len(rows)
    /\ \A k \in 1..Len(wire) : Named(rows[RowAt(k)])

----------------------------------------------------------------------------
(* The properties.                                                         *)

\* C1, as stated: every call of push_to_statsd, whatever fields its rows are
\* missing, sends exactly 13 datagrams per row.  The calls looked at are those
\* that returned and those a row without pxname or svname ended; a call that
\* sendto ended is left aside, as the contract lets emit fail there.
C1_EveryCallSendsAll ==
    (Returned \/ err \in {"KeyError", "TypeError"})
        => Len(wire) = SelectionSize * Len(rows)

\* C1, amended: a call of push_to_statsd that returns has sent exactly 13
\* datagrams per row and returns that number, whichever of the selected fields
\* the rows are missing; a row without pxname or svname (KeyError), or with
\* None for one of them (TypeError), ends the call after the 13 datagrams of
\* each earlier row and none of its own.
C1_ReturnedCallSentAll ==
    /\ Returned =>
          /\ reported = PyInt(SelectionSize * Len(rows))
          /\ Len(wire) = SelectionSize * Len(rows)
          /\ \A j \in 1..Len(rows) : Named(rows[j])
    /\ err \in {"KeyError", "TypeError"} =>
          /\ rows # <<>>
          /\ ~Named(rows[Len(rows)])
          /\ Len(wire) = SelectionSize * (Len(rows) - 1)

\* A call returned after two rows, each of them missing selected fields.
C1_Witness ==
    /\ Returned
    /\ Len(rows) = 2
    /\ \A j \in 1..2 : PyStr(<<"qmax">>) \notin DOMAIN rows[j]

\* C2: the datagram of a selected field that is absent from the row, or whose
\* value is the empty string (or None, in a short row), is "<name>.<field>:0|g",
\* and it stands at the field's own place: no field is skipped.
C2_ZeroFill ==
    /\ WireWithinRows
    /\ \A k \in 1..Len(wire) :
          LET row   == rows[RowAt(k)]
              field == FieldOrderInCode[PlaceAt(k)]
              key   == PyStr(<<field>>)
          IN  (key \notin DOMAIN row \/ row[key] = PyStr(<<>>) \/ row[key] = PyNone)
                  => wire[k] = Datagram(row, field, <<"0">>)

\* All 13 datagrams of a row went out, for a field the header lacks (qmax),
\* for one whose cell is empty (qcur) and for the others.
C2_Witness ==
    /\ Len(wire) >= SelectionSize
    /\ PyStr(<<"qmax">>) \notin DOMAIN rows[1]
    /\ PyStr(<<"qcur">>) \in DOMAIN rows[1]
    /\ rows[1][PyStr(<<"qcur">>)] = PyStr(<<>>)
    /\ wire[1] = <<"haproxy", ".", "web", ".", "FRONTEND", ".", "qcur", ":", "0", "|", "g">>

\* C3: the datagram of a selected field with a non-empty value v is exactly
\* "<namespace>.<pxname>.<svname>.<field>:<v>|g", v as the source wrote it.
C3_PassThrough ==
    /\ WireWithinRows
    /\ \A k \in 1..Len(wire) :
          LET row   == rows[RowAt(k)]
              field == FieldOrderInCode[PlaceAt(k)]
              key   == PyStr(<<field>>)
          IN  (key \in DOMAIN row /\ row[key].type = "str" /\ row[key].v # <<>>)
                  => wire[k] = Datagram(row, field, row[key].v)

\* The datagram of the specification's example was sent, and so was one with
\* a value that is no number.
C3_Witness ==
    /\ \E k \in 1..Len(wire) :
          wire[k] = <<"haproxy", ".", "web", ".", "FRONTEND", ".", "bin", ":", "4096", "|", "g">>
    /\ \E k \in 1..Len(wire) :
          wire[k] = <<"haproxy", ".", "12", ".", "4096", ".", "qcur", ":", "7x", "|", "g">>

\* The name and the field a datagram carries: what stands before the last
\* '.' in front of the ':', and between the two.
FieldIn(payload) == payload[Find(payload, ":", 1) - 1]
NameIn(payload)  == SubSeq(payload, 1, Find(payload, ":", 1) - 3)

\* The datagrams go out row by row, each row's fields in the given order.
InOrder(order) ==
    /\ Len(wire) <= SelectionSize * Len(rows)
    /\ \A k \in 1..Len(wire) :
          /\ NameIn(wire[k]) = NameOf(rows[RowAt(k)])
          /\ FieldIn(wire[k]) = order[PlaceAt(k)]

\* C4, as stated: row order, then the order of the specification's field list.
C4_SpecFieldOrder == InOrder(FieldOrderInSpec)

\* C4, amended: row order, then the order of the code's list: qcur, qmax,
\* scur, smax, rate, rate_max, hrsp_1xx .. hrsp_5xx, bin, bout.
C4_CodeFieldOrder == InOrder(FieldOrderInCode)

\* Two rows with different names were sent in full.
C4_Witness ==
    /\ Len(wire) = 2 * SelectionSize
    /\ NameIn(wire[1]) # NameIn(wire[SelectionSize + 1])

\* C5, as stated: a cycle whose response has a status outside 2xx has a failed
\* fetch and no datagram.
C5_Non2xxFails ==
    (status # 0 /\ ~(200 <= status /\ status < 300))
        => (err = "HTTPError" /\ pc = "crashed" /\ wire = <<>>)

\* C5, amended: a cycle whose response has a 4xx or 5xx status has a failed
\* fetch (HTTPError), yields no row and sends no datagram; the failure ends
\* the process, so no send follows it.  A final status below 400 that is not
\* 2xx passes raise_for_status and its body is parsed like any other.
C5_ErrorStatusFails ==
    (400 <= status /\ status < 600)
        => (err = "HTTPError" /\ pc = "crashed" /\ wire = <<>> /\ rows = <<>>)

\* A fetch was answered 503.
C5_Witness == status = 503 /\ err = "HTTPError"

\* C6, as stated: in the long-running mode no failed cycle ends the process;
\* only an interrupt does.
C6_FailureDoesNotTerminate == ~test => pc # "crashed"

\* C6, amended: nothing catches the exception of a failed cycle: in either
\* mode it ends the process, and no fetch, send or sleep follows it.  The
\* process sleeps only after a cycle that reported its count, and goes on to
\* the next fetch only out of that sleep.
C6_FailureTerminates ==
    [][/\ err = ""
       /\ err' # "" => pc' = "crashed"
       /\ pc' = "sleep" => (Returned' /\ ~test)
       /\ pc' = "fetch" => pc = "sleep"]_vars

\* The process of the long-running mode ended on a failed cycle.
C6_Witness ==
    /\ ~test
    /\ pc = "crashed"
    /\ err \in {"ConnectionError", "HTTPError", "socket.error"}

\* A data line, not blank, with another number of cells than the header has.
Mismatched(line) == line # <<>> /\ Len(line) # Len(served.header)

\* C9, as stated: a cycle whose response has a data line with another column
\* count than the header sends no datagram.
C9_MismatchFailsCycle ==
    (served # PyNone /\ \E j \in 1..Len(served.lines) : Mismatched(served.lines[j]))
        => wire = <<>>

\* C9, amended: a data line with another column count than the header is no
\* parse error.  The reader yields a row for it: the columns the line has, None
\* for each column it lacks, the surplus cells as a list under the key None.
\* The cycle goes on, and the row gets its 13 datagrams like any other, unless
\* the line is so short that pxname or svname is None (TypeError).
C9_MismatchYieldsRow ==
    \A j \in 1..Len(rows) :
        LET line == DataLines[j]
            h    == served.header
            row  == rows[j]
        IN  /\ \A c \in (Len(line) + 1)..Len(h) :
                  PyStr(h[c]) \in DOMAIN row /\ row[PyStr(h[c])] = PyNone
            /\ Len(line) > Len(h) =>
                  /\ PyNone \in DOMAIN row
                  /\ row[PyNone] = PyList([i \in 1..(Len(line) - Len(h)) |->
                                               PyStr(line[Len(h) + i])])
            /\ (Named(row) /\ (j < Len(rows) \/ Returned)) =>
                  Len(wire) >= SelectionSize * j
            /\ (j = Len(rows) /\ err = "TypeError") =>
                  (Len(line) < Len(h) /\ Len(wire) = SelectionSize * (j - 1))

\* A cycle that returned after a short line and a long one, 13 datagrams each.
C9_Witness ==
    /\ Returned
    /\ Len(served.lines) = 2
    /\ Len(served.lines[1]) = Len(served.header) - 1
    /\ Len(served.lines[2]) = Len(served.header) + 1
    /\ Len(wire) = 2 * SelectionSize

C7_RowsMatchLines ==
    (pc = "drained" /\ served.marker \in {<<>>, HAProxyMarker}) =>
        /\ Len(rows) = Len(DataLines)
        /\ \A j \in 1..Len(DataLines) :
              \A c \in 1..Min(Len(served.header), Len(DataLines[j])) :
                  (\A d \in (c + 1)..Len(served.header) : served.header[d] # served.header[c])
                      => /\ PyStr(served.header[c]) \in DOMAIN rows[j]
                         /\ rows[j][PyStr(served.header[c])] = PyStr(DataLines[j][c])

\* Two rows were read from a response with two columns and two full lines.
C7_Witness ==
    /\ pc = "drained"
    /\ served.marker = HAProxyMarker
    /\ served.header = <<<<"svname">>, <<"pxname">>>>
    /\ Len(rows) = 2
    /\ rows[2][Px] = PyStr(<<"4096">>)
    /\ rows[2][Sv] = PyStr(<<"12">>)

\* C8: what reaches the csv parser is the body without one leading "# ", and
\* the body itself when it does not start with "# ".
C8_StripsExactlyOneMarker ==
    pc = "push" => reader = DictReader(splitlines(StripExactMarker(content)))

====
